---- MODULE Spec2Model ----
(***************************************************************************)
(* A model of manifold.py: main() of the word-neighbour pipeline.          *)
(* One action per statement group of main(); the collaborators imported    *)
(* from manifold_module, ngrams and lxa5lib are modelled by operators.     *)
(* Dense numeric matrices whose formula lives in manifold_module           *)
(* (Diameter, incidence graph, Laplacian) are kept by their shape only;    *)
(* the eigensolver's result is chosen nondeterministically.                *)
(***************************************************************************)
EXTENDS Integers, Sequences, FiniteSets

\* ---------------------------------------------------------------- bounds
MaxVocab == 3
MaxWordTypes == 3
MaxNeighbors == 2
MaxEigenvectors == 2
MaxCoord == 1

\* ------------------------------------------------------- generic helpers
Min(a, b) == IF a < b THEN a ELSE b

Range(s) == {s[i] : i \in 1..Len(s)}

NoDuplicates(s) == \A i, j \in 1..Len(s) : i # j => s[i] # s[j]

\* Python's seq[:n] for n >= 0: the first n elements, all of them if fewer.
SliceStop(seq, n) == SubSeq(seq, 1, Min(n, Len(seq)))

\* ------------------------------------------------------------ input data
WordUniverse == <<"the", "cat", "sat", "dog", "ran", "fox">>

\* Per-word context counts found in the bigram/trigram files, one column
\* per distinct context.  Two corpora: in the first "cat"/"dog" and
\* "the"/"sat" share their contexts; in the second "cat" has no context.
NgramCounts(corpusno, w) ==
    IF corpusno = 1
    THEN CASE w = "the" -> <<2, 0>>
           [] w = "cat" -> <<0, 1>>
           [] w = "sat" -> <<2, 0>>
           [] w = "dog" -> <<0, 1>>
           [] OTHER     -> <<1, 1>>
    ELSE CASE w = "the" -> <<1, 1>>
           [] w = "cat" -> <<0, 0>>
           [] w = "sat" -> <<0, 3>>
           [] OTHER     -> <<1, 0>>

Corpora == {1, 2}

\* A word-list file of v word types: one <<word, count>> line per word type,
\* most frequent first.
WordFileOf(v) == [i \in 1..v |-> <<WordUniverse[i], v + 1 - i>>]

\* The value of a matrix name that is not bound to a matrix.
NoMatrix == [rows |-> 0, cols |-> 0]

InputFiles == {"words.txt", "bigrams.txt", "trigrams.txt"}

VARIABLES
    pc,                    \* position in main()
    files,                 \* files present on disk
    wordFile,              \* content of the word-list file (word types, in order)
    ngramFile,             \* which corpus the bigram/trigram files hold
    maxwordtypes, nNeighbors, nEigenvectors,
    create_WordToContexts, create_ContextToWords,
    mywords,               \* keys of the ordered dict returned by GetMyWords
    nWordsForAnalysis,
    analyzedwordlist,
    context_array, WordToContexts, ContextToWords,
    CountOfSharedContexts, Diameter, incidencegraph, mylaplacian,
    myeigenvectors, coordinates, wordsdistance, closestNeighbors,
    WordToNeighbors,       \* OrderedDict: sequence of <<word, neighbors>>
    wordno,                \* rows of closestNeighbors already collected
    live,                  \* names of main's matrices that are bound (not del'ed)
    stdout,                \* what main printed: <<topic, value>>
    neighborsTxt, neighborsJson, outputfilelist,
    dimsPassed,            \* <<callee, word-count argument>> of every stage call
    trace,                 \* statement groups started, in order
    ngramsCalls,
    wordsAbsentAtStart,
    failedStage            \* 0, or the stage that raised

vars == <<pc, files, wordFile, ngramFile, maxwordtypes, nNeighbors,
          nEigenvectors, create_WordToContexts, create_ContextToWords,
          mywords, nWordsForAnalysis, analyzedwordlist, context_array,
          WordToContexts, ContextToWords, CountOfSharedContexts, Diameter,
          incidencegraph, mylaplacian, myeigenvectors, coordinates,
          wordsdistance, closestNeighbors, WordToNeighbors, live, stdout,
          neighborsTxt, neighborsJson, outputfilelist, dimsPassed, trace,
          ngramsCalls, wordsAbsentAtStart, failedStage, wordno>>

inputVars == <<wordFile, ngramFile, maxwordtypes, nNeighbors, nEigenvectors,
               create_WordToContexts, create_ContextToWords,
               wordsAbsentAtStart>>

loaderVars == <<mywords, nWordsForAnalysis, analyzedwordlist, wordno>>

contextVars == <<context_array, WordToContexts, ContextToWords>>

matrixVars == <<CountOfSharedContexts, Diameter, incidencegraph, mylaplacian,
                myeigenvectors, coordinates, wordsdistance, closestNeighbors>>

outputVars == <<WordToNeighbors, neighborsTxt, neighborsJson, outputfilelist>>

Init ==
    /\ pc = "check_words"
    /\ files \in {fs \in SUBSET InputFiles : TRUE}
    /\ wordsAbsentAtStart = ("words.txt" \notin files)
    /\ wordFile \in {WordFileOf(v) : v \in 1..MaxVocab}
    /\ ngramFile \in Corpora
    /\ maxwordtypes \in 1..MaxWordTypes
    /\ nNeighbors \in 1..MaxNeighbors
    /\ nEigenvectors \in 1..MaxEigenvectors
    /\ create_WordToContexts \in BOOLEAN
    /\ create_ContextToWords \in BOOLEAN
    /\ mywords = <<>>
    /\ nWordsForAnalysis = 0
    /\ analyzedwordlist = <<>>
    /\ context_array = <<>>
    /\ WordToContexts = <<>>
    /\ ContextToWords = <<>>
    /\ CountOfSharedContexts = <<>>
    /\ Diameter = NoMatrix
    /\ incidencegraph = NoMatrix
    /\ mylaplacian = NoMatrix
    /\ myeigenvectors = <<>>
    /\ coordinates = <<>>
    /\ wordsdistance = <<>>
    /\ closestNeighbors = <<>>
    /\ WordToNeighbors = <<>>
    /\ wordno = 0
    /\ live = {}
    /\ stdout = <<>>
    /\ neighborsTxt = [wordtypes |-> 0, neighbors |-> 0, lines |-> <<>>]
    /\ neighborsJson = <<>>
    /\ outputfilelist = <<>>
    /\ dimsPassed = {}
    /\ trace = <<>>
    /\ ngramsCalls = 0
    /\ failedStage = 0

\* ------------------------------------------------------- control skeleton
\* The statement groups of main(), in program order.
PcOrder == <<"check_words", "read_words", "select_words", "context_array",
             "dump_contexts", "shared_contexts", "diameter", "incidence",
             "laplacian", "eigenvectors", "coordinates", "distances",
             "neighbors",
             "collect", "write_txt", "write_graph", "write_json",
             "list_outputs", "done">>

PcIndex(p) == CHOOSE i \in 1..Len(PcOrder) : PcOrder[i] = p

NextPc(p) == PcOrder[PcIndex(p) + 1]

\* The six stages of the pipeline; 0 for statements outside them.
StageOf(p) ==
    CASE p \in {"check_words", "ngrams.main", "read_words", "select_words"} -> 1
      [] p \in {"context_array", "dump_contexts"}   -> 2
      [] p \in {"shared_contexts", "diameter"}      -> 3
      [] p \in {"incidence", "laplacian"}           -> 4
      [] p = "eigenvectors"                         -> 5
      [] p \in {"coordinates", "distances", "neighbors", "collect"} -> 6
      [] OTHER                                      -> 0

\* main() has no try/except: an exception raised by any call leaves main.
RaiseTargetSwallow(p) == NextPc(p)
RaiseTarget(p) == "aborted"

Raise(p) ==
    /\ pc' = RaiseTarget(p)
    /\ failedStage' = StageOf(p)
    /\ trace' = Append(trace, p)

\* A statement group that completes passes control to the next one.
Step(p) ==
    /\ pc = p
    /\ pc' = NextPc(p)
    /\ trace' = Append(trace, p)
    /\ failedStage' = failedStage

\* The progress line main() prints when it enters a statement group:
\* <<topic, value>>, the value 0 when the line reports none.
ProgressOf(p) ==
    CASE p = "read_words"      -> <<<<"Reading word list...", 0>>>>
      [] p = "context_array"   -> <<<<"Reading bigrams/trigrams and computing context array...", 0>>>>
      [] p = "shared_contexts" -> <<<<"Computing shared contexts...", 0>>>>
      [] p = "diameter"        -> <<<<"Computing diameter...", 0>>>>
      [] p = "incidence"       -> <<<<"Computing incidence graph...", 0>>>>
      [] p = "laplacian"       -> <<<<"Computing mylaplacian...", 0>>>>
      [] p = "eigenvectors"    -> <<<<"Computing eigenvectors...", 0>>>>
      [] p = "coordinates"     -> <<<<"Computing distances between words...", 0>>>>
      [] p = "neighbors"       -> <<<<"Computing nearest neighbors now... ", 0>>>>
      [] OTHER                 -> <<>>

\* ------------------------------------------------------ lines 85-97: loader
\* line 89: the guard of the call to ngrams.main
NeedNgramsAlways(fs) == TRUE
NeedNgrams(fs) == "words.txt" \notin fs

\* ngrams.main writes the word, bigram and trigram lists, or leaves the
\* folder as it was when its own corpus is missing.
NgramsOutcomes(fs) == {fs \cup InputFiles, fs}

CheckWords ==
    /\ pc = "check_words"
    /\ pc' = NextPc(pc)
    /\ failedStage' = failedStage
    /\ IF NeedNgrams(files)
       THEN /\ ngramsCalls' = ngramsCalls + 1
            /\ trace' = trace \o <<"check_words", "ngrams.main">>
            /\ files' \in NgramsOutcomes(files)
       ELSE /\ ngramsCalls' = ngramsCalls
            /\ trace' = Append(trace, "check_words")
            /\ files' = files
    /\ UNCHANGED <<inputVars, loaderVars, contextVars, matrixVars, outputVars,
                   live, stdout, dimsPassed>>

\* GetMyWords: the keys of the ordered dict, in file order.
GetMyWords(file) == [i \in 1..Len(file) |-> file[i][1]]

ReadWords ==
    /\ pc = "read_words"
    /\ IF "words.txt" \in files
       THEN /\ Step("read_words")
            /\ mywords' = GetMyWords(wordFile)
            /\ stdout' = stdout \o ProgressOf("read_words")
                             \o <<<<"neighbors", nNeighbors>>,
                                  <<"corpus word types", Len(mywords')>>>>
       ELSE /\ Raise("read_words")
            /\ stdout' = stdout \o ProgressOf("read_words")
            /\ mywords' = mywords
    /\ UNCHANGED <<inputVars, files, nWordsForAnalysis, analyzedwordlist,
                   wordno, contextVars, matrixVars, outputVars, live,
                   dimsPassed, ngramsCalls>>

\* line 106: list(mywords.keys())[ : nWordsForAnalysis]
AnalyzedWordsSkipFirst(keys, n) == SubSeq(keys, 2, Min(n + 1, Len(keys)))
AnalyzedWords(keys, n) == SliceStop(keys, n)

\* lines 99-103
NWords(lenMywords, maxw) == IF lenMywords > maxw THEN maxw ELSE lenMywords

SelectWords ==
    /\ Step("select_words")
    /\ nWordsForAnalysis' = NWords(Len(mywords), maxwordtypes)
    /\ stdout' = Append(stdout, <<"words for analysis", nWordsForAnalysis'>>)
    /\ analyzedwordlist' = AnalyzedWords(mywords, nWordsForAnalysis')
    /\ UNCHANGED <<inputVars, files, mywords, wordno, contextVars,
                   matrixVars, outputVars, live, dimsPassed, ngramsCalls>>

\* ------------------------------------------- lines 120-135: context array
\* GetContextArray: one row of context counts per analyzed word, in the
\* order of the analyzed word list; the two mappings only when asked for.
GetContextArray(corpusno, wordlist) ==
    [i \in 1..Len(wordlist) |-> NgramCounts(corpusno, wordlist[i])]

ContextsOf(row) == {c \in 1..Len(row) : row[c] > 0}

MakeWordToContexts(corpusno, wordlist, flag) ==
    IF flag
    THEN [i \in 1..Len(wordlist) |->
             <<wordlist[i], ContextsOf(NgramCounts(corpusno, wordlist[i]))>>]
    ELSE <<>>

MakeContextToWords(corpusno, wordlist, flag) ==
    IF flag
    THEN [c \in 1..2 |->
             <<c, {w \in Range(wordlist) : NgramCounts(corpusno, w)[c] > 0}>>]
    ELSE <<>>

GetContextArrayStep ==
    /\ pc = "context_array"
    /\ IF {"bigrams.txt", "trigrams.txt"} \subseteq files
       THEN /\ Step("context_array")
            /\ stdout' = stdout \o ProgressOf("context_array")
            /\ context_array' = GetContextArray(ngramFile, analyzedwordlist)
            /\ WordToContexts' = MakeWordToContexts(ngramFile, analyzedwordlist,
                                                    create_WordToContexts)
            /\ ContextToWords' = MakeContextToWords(ngramFile, analyzedwordlist,
                                                    create_ContextToWords)
            /\ live' = live \cup {"context_array"}
            /\ dimsPassed' = dimsPassed \cup {<<"GetContextArray", maxwordtypes>>}
       ELSE /\ Raise("context_array")
            /\ stdout' = stdout \o ProgressOf("context_array")
            /\ UNCHANGED <<contextVars, live, dimsPassed>>
    /\ UNCHANGED <<inputVars, files, loaderVars, matrixVars, outputVars,
                   ngramsCalls>>

\* lines 127-135: which mapping files main writes
ContextFilesWrittenBoth(wtc, ctw) == {"WordToContexts.json", "ContextToWords.json"}
ContextFilesWritten(wtc, ctw) ==
    (IF wtc THEN {"WordToContexts.json"} ELSE {})
        \cup (IF ctw THEN {"ContextToWords.json"} ELSE {})

DumpContexts ==
    /\ Step("dump_contexts")
    /\ stdout' = stdout
                   \o (IF create_WordToContexts
                       THEN <<<<"WordToContexts ready", 0>>>> ELSE <<>>)
                   \o (IF create_ContextToWords
                       THEN <<<<"ContextToWords ready", 0>>>> ELSE <<>>)
    /\ files' = files \cup ContextFilesWritten(create_WordToContexts,
                                                create_ContextToWords)
    /\ UNCHANGED <<inputVars, loaderVars, contextVars, matrixVars, outputVars,
                   live, dimsPassed, ngramsCalls>>

\* ---------------------------------------- lines 137-151: dense matrices
RECURSIVE DotUpTo(_, _, _)
DotUpTo(a, b, n) == IF n = 0 THEN 0 ELSE a[n] * b[n] + DotUpTo(a, b, n - 1)

Dot(a, b) == DotUpTo(a, b, Len(a))

\* line 138: context_array.dot(context_array.T).todense()
DotTranspose(m) == [i \in 1..Len(m) |-> [j \in 1..Len(m) |-> Dot(m[i], m[j])]]

\* A dense square matrix known by its shape only.
Shape(m) == [rows |-> Len(m), cols |-> Len(m)]

SharedContexts ==
    /\ Step("shared_contexts")
    /\ stdout' = stdout \o ProgressOf("shared_contexts")
    /\ CountOfSharedContexts' = DotTranspose(context_array)
    /\ context_array' = <<>>
    /\ live' = (live \cup {"CountOfSharedContexts"}) \ {"context_array"}
    /\ UNCHANGED <<inputVars, files, loaderVars, WordToContexts, ContextToWords,
                   Diameter, incidencegraph, mylaplacian, myeigenvectors,
                   coordinates, wordsdistance, closestNeighbors, outputVars,
                   dimsPassed, ngramsCalls>>

DiameterStep ==
    /\ Step("diameter")
    /\ stdout' = stdout \o ProgressOf("diameter")
    /\ Diameter' = Shape(CountOfSharedContexts)
    /\ live' = live \cup {"Diameter"}
    /\ dimsPassed' = dimsPassed \cup {<<"Normalize", maxwordtypes>>}
    /\ UNCHANGED <<inputVars, files, loaderVars, contextVars,
                   CountOfSharedContexts, incidencegraph, mylaplacian,
                   myeigenvectors, coordinates, wordsdistance, closestNeighbors,
                   outputVars, ngramsCalls>>

IncidenceStep ==
    /\ Step("incidence")
    /\ stdout' = stdout \o ProgressOf("incidence")
    /\ incidencegraph' = Shape(CountOfSharedContexts)
    /\ live' = live \cup {"incidencegraph"}
    /\ dimsPassed' = dimsPassed \cup {<<"compute_incidence_graph", maxwordtypes>>}
    /\ UNCHANGED <<inputVars, files, loaderVars, contextVars,
                   CountOfSharedContexts, Diameter, mylaplacian,
                   myeigenvectors, coordinates, wordsdistance, closestNeighbors,
                   outputVars, ngramsCalls>>

\* lines 150-151: del Diameter; del incidencegraph
ReleasedAfterLaplacian == {"Diameter", "incidencegraph"}

LaplacianStep ==
    /\ Step("laplacian")
    /\ stdout' = stdout \o ProgressOf("laplacian")
    /\ mylaplacian' = [rows |-> incidencegraph.rows, cols |-> incidencegraph.cols]
    /\ Diameter' = NoMatrix
    /\ incidencegraph' = NoMatrix
    /\ live' = (live \cup {"mylaplacian"}) \ ReleasedAfterLaplacian
    /\ dimsPassed' = dimsPassed \cup {<<"compute_laplacian", maxwordtypes>>}
    /\ UNCHANGED <<inputVars, files, loaderVars, contextVars,
                   CountOfSharedContexts, myeigenvectors, coordinates,
                   wordsdistance, closestNeighbors, outputVars, ngramsCalls>>

\* -------------------------------------------- lines 153-162: embedding
\* GetEigenvectors: one eigenvector per column, ascending eigenvalue; the
\* first column is the constant eigenvector, the others are whatever the
\* solver finds for this Laplacian (pos).
GetEigenvectors(n, pos) ==
    [i \in 1..n |-> [c \in 1..n |-> IF c = 1 THEN 1 ELSE pos[i] * (c - 1)]]

EigenStep ==
    /\ Step("eigenvectors")
    /\ stdout' = stdout \o ProgressOf("eigenvectors")
    /\ \E pos \in [1..mylaplacian.rows -> 0..MaxCoord] :
           myeigenvectors' = GetEigenvectors(mylaplacian.rows, pos)
    /\ mylaplacian' = NoMatrix
    /\ live' = (live \cup {"myeigenvectors"}) \ {"mylaplacian"}
    /\ UNCHANGED <<inputVars, files, loaderVars, contextVars,
                   CountOfSharedContexts, Diameter, incidencegraph,
                   coordinates, wordsdistance, closestNeighbors, outputVars,
                   dimsPassed, ngramsCalls>>

\* line 160: myeigenvectors[:, :nEigenvectors]
TakeColumnsDropFirst(m, n) == [i \in 1..Len(m) |-> SubSeq(m[i], 2, Min(n, Len(m[i])))]
TakeColumns(m, n) == [i \in 1..Len(m) |-> SliceStop(m[i], n)]

CoordinatesStep ==
    /\ Step("coordinates")
    /\ stdout' = stdout \o ProgressOf("coordinates")
    /\ coordinates' = TakeColumns(myeigenvectors, nEigenvectors)
    /\ live' = live \cup {"coordinates"}
    /\ UNCHANGED <<inputVars, files, loaderVars, contextVars,
                   CountOfSharedContexts, Diameter, incidencegraph,
                   mylaplacian, myeigenvectors, wordsdistance,
                   closestNeighbors, outputVars, dimsPassed,
                   ngramsCalls>>

RECURSIVE SqDistUpTo(_, _, _)
SqDistUpTo(a, b, n) ==
    IF n = 0 THEN 0
    ELSE (a[n] - b[n]) * (a[n] - b[n]) + SqDistUpTo(a, b, n - 1)

\* compute_words_distance: pairwise Euclidean distance of the rows, kept
\* squared (the order of the distances is the same).
compute_words_distance(coords) ==
    [i \in 1..Len(coords) |->
        [j \in 1..Len(coords) |-> SqDistUpTo(coords[i], coords[j], Len(coords[i]))]]

DistanceStep ==
    /\ Step("distances")
    /\ stdout' = stdout \o ProgressOf("distances")
    /\ wordsdistance' = compute_words_distance(coordinates)
    /\ coordinates' = <<>>
    /\ live' = (live \cup {"wordsdistance"}) \ {"coordinates"}
    /\ dimsPassed' = dimsPassed \cup {<<"compute_words_distance", maxwordtypes>>}
    /\ UNCHANGED <<inputVars, files, loaderVars, contextVars,
                   CountOfSharedContexts, Diameter, incidencegraph,
                   mylaplacian, myeigenvectors, closestNeighbors, outputVars,
                   ngramsCalls>>

\* ------------------------------------- lines 164-174: nearest neighbours
\* Indices of a row sorted by ascending value, equal values by lower index.
RankIn(row, j) ==
    1 + Cardinality({m \in 1..Len(row) :
                        row[m] < row[j] \/ (row[m] = row[j] /\ m < j)})

StableArgsort(row) ==
    [p \in 1..Len(row) |-> CHOOSE j \in 1..Len(row) : RankIn(row, j) = p]

\* compute_closest_neighbors: for every row the nNeighbors + 1 closest
\* indices; main reads the first as the word and the rest as its neighbours.
compute_closest_neighbors(wordlist, distance, n) ==
    [i \in 1..Len(distance) |-> SliceStop(StableArgsort(distance[i]), n + 1)]

NeighborsStep ==
    /\ Step("neighbors")
    /\ stdout' = stdout \o ProgressOf("neighbors")
    /\ closestNeighbors' = compute_closest_neighbors(analyzedwordlist,
                                                     wordsdistance, nNeighbors)
    /\ live' = live \cup {"closestNeighbors"}
    /\ UNCHANGED <<inputVars, files, loaderVars, contextVars,
                   CountOfSharedContexts, Diameter, incidencegraph,
                   mylaplacian, myeigenvectors, coordinates, wordsdistance,
                   outputVars, dimsPassed, ngramsCalls>>

\* OrderedDict
Keys(od) == [i \in 1..Len(od) |-> od[i][1]]

HasKey(od, k) == \E i \in 1..Len(od) : od[i][1] = k

Lookup(od, k) == od[CHOOSE i \in 1..Len(od) : od[i][1] = k][2]

\* od[k] = v: a new key goes last, a known key keeps its place.
SetItem(od, k, v) ==
    IF HasKey(od, k)
    THEN [i \in 1..Len(od) |-> IF od[i][1] = k THEN <<k, v>> ELSE od[i]]
    ELSE Append(od, <<k, v>>)

\* lines 170-174: the body of the loop for one wordno
RowEntry(wordlist, line) ==
    <<wordlist[line[1]],
      [p \in 1..(Len(line) - 1) |-> wordlist[line[p + 1]]]>>

\* lines 169-174: one iteration of "for wordno in range(nWordsForAnalysis)"
CollectRow ==
    /\ pc = "collect"
    /\ wordno < nWordsForAnalysis
    /\ wordno' = wordno + 1
    /\ WordToNeighbors' =
          SetItem(WordToNeighbors,
                  RowEntry(analyzedwordlist, closestNeighbors[wordno'])[1],
                  RowEntry(analyzedwordlist, closestNeighbors[wordno'])[2])
    /\ UNCHANGED <<pc, trace, failedStage, inputVars, files, mywords,
                   nWordsForAnalysis, analyzedwordlist, contextVars,
                   matrixVars, neighborsTxt, neighborsJson,
                   outputfilelist, live, stdout, dimsPassed, ngramsCalls>>

\* the loop of lines 169-174 is exhausted
CollectEnd ==
    /\ Step("collect")
    /\ wordno = nWordsForAnalysis
    /\ UNCHANGED <<inputVars, files, loaderVars, contextVars,
                   matrixVars, outputVars, live, stdout, dimsPassed,
                   ngramsCalls>>

\* ------------------------------------------------ lines 176-199: outputs
\* line 180: the value formatted into "Number of word types analyzed"
HeaderWordTypes(maxw, nwords) == maxw

WriteTxt ==
    /\ Step("write_txt")
    /\ stdout' = stdout
    /\ neighborsTxt' = [wordtypes |-> HeaderWordTypes(maxwordtypes, nWordsForAnalysis),
                        neighbors |-> nNeighbors,
                        lines |-> WordToNeighbors]
    /\ files' = files \cup {"nearest_neighbors.txt"}
    /\ UNCHANGED <<inputVars, loaderVars, contextVars, matrixVars,
                   WordToNeighbors, neighborsJson, outputfilelist, live,
                   dimsPassed, ngramsCalls>>

WriteGraph ==
    /\ Step("write_graph")
    /\ stdout' = stdout
    /\ files' = files \cup {"nearest_neighbors.gexf"}
    /\ UNCHANGED <<inputVars, loaderVars, contextVars, matrixVars, outputVars,
                   live, dimsPassed, ngramsCalls>>

\* line 189: json_pdump(..., asis=True) keeps the mapping's own order
WriteJson ==
    /\ Step("write_json")
    /\ stdout' = stdout
    /\ neighborsJson' = WordToNeighbors
    /\ files' = files \cup {"nearest_neighbors.json"}
    /\ UNCHANGED <<inputVars, loaderVars, contextVars, matrixVars,
                   WordToNeighbors, neighborsTxt, outputfilelist, live,
                   dimsPassed, ngramsCalls>>

\* lines 191-197
OutputFileList(wtc, ctw) ==
    <<"nearest_neighbors.txt", "nearest_neighbors.gexf", "nearest_neighbors.json">>
        \o (IF wtc THEN <<"WordToContexts.json">> ELSE <<>>)
        \o (IF ctw THEN <<"ContextToWords.json">> ELSE <<>>)

ListOutputs ==
    /\ Step("list_outputs")
    /\ outputfilelist' = OutputFileList(create_WordToContexts,
                                        create_ContextToWords)
    /\ stdout' = Append(stdout, <<"Output files:", Len(outputfilelist')>>)
    /\ UNCHANGED <<inputVars, files, loaderVars, contextVars, matrixVars,
                   WordToNeighbors, neighborsTxt, neighborsJson, live, dimsPassed, ngramsCalls>>

\* --------------------------------------------------------------- failures
\* The calls of main() that can raise whatever their arguments: reading a
\* file, a dense allocation, the eigensolver.
RaisingPcs == {"read_words", "context_array", "shared_contexts", "diameter",
               "incidence", "laplacian", "eigenvectors", "distances",
               "neighbors"}

StageFails ==
    /\ pc \in RaisingPcs
    /\ Raise(pc)
    /\ stdout' = stdout \o ProgressOf(pc)
    /\ UNCHANGED <<inputVars, files, loaderVars, contextVars, matrixVars,
                   outputVars, live, dimsPassed, ngramsCalls>>

\* line 90: ngrams.main itself raises
NgramsFails ==
    /\ pc = "check_words"
    /\ NeedNgrams(files)
    /\ ngramsCalls' = ngramsCalls + 1
    /\ pc' = RaiseTarget(pc)
    /\ failedStage' = StageOf(pc)
    /\ trace' = trace \o <<"check_words", "ngrams.main">>
    /\ UNCHANGED <<inputVars, files, loaderVars, contextVars, matrixVars,
                   outputVars, live, stdout, dimsPassed>>

Next ==
    \/ CheckWords
    \/ NgramsFails
    \/ ReadWords
    \/ SelectWords
    \/ GetContextArrayStep
    \/ DumpContexts
    \/ SharedContexts
    \/ DiameterStep
    \/ IncidenceStep
    \/ LaplacianStep
    \/ EigenStep
    \/ CoordinatesStep
    \/ DistanceStep
    \/ NeighborsStep
    \/ CollectRow
    \/ CollectEnd
    \/ WriteTxt
    \/ WriteGraph
    \/ WriteJson
    \/ ListOutputs
    \/ StageFails

Spec == Init /\ [][Next]_vars

\* ================================================================ claims
\* p was started and did not raise
Completed(p) ==
    /\ p \in Range(trace)
    /\ ~(pc = "aborted" /\ trace[Len(trace)] = p)

N == Len(analyzedwordlist)

V == Len(wordFile)

NeighborOutputs == {"nearest_neighbors.txt", "nearest_neighbors.gexf",
                    "nearest_neighbors.json"}

C2_NeighborListShape ==
    Completed("collect") =>
        \A i \in 1..N :
            /\ HasKey(WordToNeighbors, analyzedwordlist[i])
            /\ NoDuplicates(Lookup(WordToNeighbors, analyzedwordlist[i]))
            /\ analyzedwordlist[i] \notin Range(Lookup(WordToNeighbors, analyzedwordlist[i]))
            /\ Len(Lookup(WordToNeighbors, analyzedwordlist[i])) = Min(nNeighbors, N - 1)

\* C3: the keys of the word-to-neighbours mapping are the analyzed word list,
\* each word once and in word-list order, in the mapping, in the lines of the
\* text file and in the JSON form.
C3_OneEntryPerWord ==
    /\ Completed("collect") => Keys(WordToNeighbors) = analyzedwordlist
    /\ "nearest_neighbors.txt" \in files => Keys(neighborsTxt.lines) = analyzedwordlist
    /\ "nearest_neighbors.json" \in files => Keys(neighborsJson) = analyzedwordlist

DenseMatrices == {"CountOfSharedContexts", "Diameter", "incidencegraph",
                  "mylaplacian"}

\* C5: each of the four dense matrices is released once its last consumer
\* has completed, and at most one of them is live at any point.
C5_DenseMatricesReleased ==
    /\ Completed("incidence") => "CountOfSharedContexts" \notin live
    /\ Completed("laplacian") => {"Diameter", "incidencegraph"} \cap live = {}
    /\ Completed("eigenvectors") => "mylaplacian" \notin live
    /\ Cardinality(live \cap DenseMatrices) <= 1

Printed(topics, value) ==
    \E i \in 1..Len(stdout) : stdout[i][1] \in topics /\ stdout[i][2] = value

\* C6: a run that had to clamp the neighbour count (nNeighbors > N - 1) or
\* the eigenvector count (nEigenvectors > N) has printed the clamped value.
C6_ClampNoticed ==
    pc = "done" =>
        /\ nNeighbors > N - 1 => Printed({"neighbors"}, N - 1)
        /\ nEigenvectors > N => Printed({"eigenvectors"}, N)

NotNgrams(e) == e # "ngrams.main"

NgramsEvents == SelectSeq(trace, LAMBDA e : e = "ngrams.main")

\* C7: ngrams.main is invoked once, before the word list is read, when the
\* word-list file was absent at the start and not at all when it was
\* present; a run that needs a missing input file aborts there and no
\* later stage runs.
C7_LoaderInputs ==
    /\ ngramsCalls <= 1
    /\ Len(NgramsEvents) = ngramsCalls
    /\ "read_words" \in Range(trace) =>
          ngramsCalls = (IF wordsAbsentAtStart THEN 1 ELSE 0)
    /\ \A i, j \in 1..Len(trace) :
          trace[i] = "ngrams.main" /\ trace[j] = "read_words" => i < j
    /\ ("read_words" \in Range(trace) /\ "words.txt" \notin files) =>
          pc = "aborted" /\ trace[Len(trace)] = "read_words"
    /\ ("context_array" \in Range(trace)
           /\ ~({"bigrams.txt", "trigrams.txt"} \subseteq files)) =>
          pc = "aborted" /\ trace[Len(trace)] = "context_array"
    /\ "shared_contexts" \in Range(trace) => InputFiles \subseteq files

\* C7 witness: the word list was absent, ngrams.main produced it and it was read.
C7_Witness ==
    /\ wordsAbsentAtStart
    /\ ngramsCalls = 1
    /\ Completed("read_words")
    /\ mywords # <<>>

\* The analyzed words and the sorted distance table as functions of the
\* inputs other than the two flags.
InputWords == SliceStop(GetMyWords(wordFile), maxwordtypes)

InputRows ==
    compute_closest_neighbors(
        InputWords,
        compute_words_distance(TakeColumns(myeigenvectors, nEigenvectors)),
        nNeighbors)

\* The mapping the rows of a sorted distance table determine: a key per
\* distinct first index, in order of first appearance, with the rest of the
\* last row that starts with it.
FirstSeen(rows) ==
    {w \in 1..Len(rows) : \A u \in 1..(w - 1) : rows[u][1] # rows[w][1]}

NthFirstSeen(rows, i) ==
    CHOOSE w \in FirstSeen(rows) :
        Cardinality({u \in FirstSeen(rows) : u <= w}) = i

LastRowOf(rows, h) ==
    rows[CHOOSE w \in 1..Len(rows) :
            /\ rows[w][1] = h
            /\ \A u \in (w + 1)..Len(rows) : rows[u][1] # h]

MappingOfRows(words, rows) ==
    [i \in 1..Cardinality(FirstSeen(rows)) |->
        RowEntry(words, LastRowOf(rows, rows[NthFirstSeen(rows, i)][1]))]

StatementsRun == SelectSeq(trace, NotNgrams)

\* C9: the statement groups run in program order, each at most once and
\* only after its predecessor; a stage that fails ends the run at once, with
\* no later stage run and none of the neighbour outputs written.
C9_LinearPipeline ==
    /\ \A i \in 1..Len(StatementsRun) : StatementsRun[i] = PcOrder[i]
    /\ pc # "aborted" => PcIndex(pc) = Len(StatementsRun) + 1
    /\ failedStage # 0 =>
          /\ pc = "aborted"
          /\ StageOf(trace[Len(trace)]) = failedStage
          /\ files \cap NeighborOutputs = {}
          /\ outputfilelist = <<>>
    /\ pc = "aborted" => failedStage # 0

\* C9 witness: the eigensolver failed after four completed stages.
C9_Witness ==
    /\ pc = "aborted"
    /\ failedStage = 5
    /\ Completed("laplacian")

\* C10: the word-count argument of every stage call after the loader, and the
\* number of word types in the neighbour file's header, equal the length of
\* the analyzed word list.
C10_DimensionIsN ==
    /\ \A d \in dimsPassed : d[2] = N
    /\ "nearest_neighbors.txt" \in files => neighborsTxt.wordtypes = N

====
